---- MODULE Spec2Model ----
(***************************************************************************)
(* HydraulicSimulator (src/modules/hydraulic_simulator.py): the Monte      *)
(* Carlo damage sampling of apply_damage_states and the per-scenario loop  *)
(* of run_hydraulic_simulation (load, plan, split and leak, solve, reduce, *)
(* accumulate, reshape).                                                   *)
(*                                                                         *)
(* Units.  Lengths and PGV are integers in units chosen so that            *)
(*   0.000241 * PGV / 100 * (length * 0.3048) = PGV * (length/2) * ln 2,   *)
(* hence exp(-lam) = 2^-(PGV*length/2) and pf = 1 - exp(-lam) are exact    *)
(* rationals; the pipes of the file have even lengths, so that a pipe can  *)
(* be split at its midpoint.  Areas are integers in units of pi/4          *)
(* (area = d^2) and orifice areas in units of pi/400, so that 0.03 and 0.2 *)
(* are 3 and 20.                                                           *)
(* A serviceability ratio satisfied/required is the pair <<sat, req>>.     *)
(***************************************************************************)
EXTENDS Integers, Sequences, FiniteSets, TLC

VARIABLES
    scenarios_df,        \* self.scenarios_df, grouped: scenario_index -> rows
    config,              \* the arguments of run_hydraulic_simulation
    seed,                \* the state of np.random when the batch starts
    rng,                 \* the state of np.random (global generator)
    pc,                  \* "running" | "returned" | "raised"
    error,               \* the exception that left run_hydraulic_simulation
    stage,               \* scenario_index -> position of its loop iteration
    wn,                  \* the loop's local water network model
    plans,               \* scenario_index -> its pipelines_orifice_areas
    results,             \* sim.run_sim(): node -> mean delivered demand
    serviceability,      \* scenario_index -> its local serviceability dict
    serviceability_dict, \* node -> list of values, one per merged scenario
    serviceability_df,   \* the returned long-format table
    damage_draws,        \* scenario_index -> pipes whose failure draw succeeded
    draw                 \* one evaluation of the loop body of the sampler

vars == <<scenarios_df, config, seed, rng, pc, error, stage, wn, plans,
          results, serviceability, serviceability_dict, serviceability_df,
          damage_draws, draw>>

batchVars == <<scenarios_df, config, seed, rng, pc, error, stage, wn, plans,
               results, serviceability, serviceability_dict,
               serviceability_df, damage_draws>>

----------------------------------------------------------------------------
(* Bounds of the model *)

\* total number of rows of the scenario table
MaxRows == 2
\* scenario_index values are 0..MaxIndex
MaxIndex == 1
\* PGV values are 0..MaxPGV
MaxPGV == 1
\* initial generator states are 0..NumSeeds-1
NumSeeds == 2
\* sampled damage counts are 0..MaxDamages in the sampler specification
MaxDamages == 21

----------------------------------------------------------------------------
(* Small helpers *)

Min(a, b) == IF a <= b THEN a ELSE b

RECURSIVE Pow2(_)
Pow2(k) == IF k = 0 THEN 1 ELSE 2 * Pow2(k - 1)

EmptyDict == <<>>

----------------------------------------------------------------------------
(* The water network read from the EPANET file *)

\* wntr.network.WaterNetworkModel(self.epanet_file_path): two pipes, a
\* junction with demand, a junction without demand and a reservoir.
BaseNetwork ==
    [ pipes      |-> ("P1" :> [length |-> 2, diameter |-> 1]) @@
                     ("P2" :> [length |-> 4, diameter |-> 2]),
      junctions  |-> ("J1" :> 1) @@ ("J2" :> 0),
      reservoirs |-> {"R1"},
      leaks      |-> EmptyDict,
      options    |-> EmptyDict ]

\* the value of the local wn before the first iteration binds it
NoNetwork ==
    [ pipes |-> EmptyDict, junctions |-> EmptyDict, reservoirs |-> {},
      leaks |-> EmptyDict, options |-> EmptyDict ]

pipe_name_list(w) == DOMAIN w.pipes

junction_name_list(w) == DOMAIN w.junctions

node_name_list(w) == DOMAIN w.junctions \cup w.reservoirs

\* mutant of line 55: the network is loaded once, before the loop, and
\* every later iteration goes on with the network the last one left
LoadNetworkOnce(file, cfg) ==
    IF wn.pipes = EmptyDict
    THEN [file EXCEPT !.options =
            [ demand_model      |-> "PDD",
              duration          |-> cfg.duration,
              minimum_pressure  |-> cfg.minimum_pressure,
              required_pressure |-> cfg.required_pressure ]]
    ELSE wn

\* lines 55-59: a network loaded afresh with the hydraulic options set
LoadNetwork(file, cfg) ==
    [file EXCEPT !.options =
        [ demand_model      |-> "PDD",
          duration          |-> cfg.duration,
          minimum_pressure  |-> cfg.minimum_pressure,
          required_pressure |-> cfg.required_pressure ]]

----------------------------------------------------------------------------
(* np.random: the global generator *)

\* The generator is a full-period linear congruential generator over the
\* states 0..31; every draw that consumes randomness advances it once.
NextState(x) == (5 * x + 3) % 32

\* np.random.poisson(lam): 0 without consuming randomness when lam = 0,
\* else a count read off the advanced state.
PoissonDraw(lam, x) ==
    IF lam = 0 THEN [value |-> 0, rng |-> x]
    ELSE [value |-> NextState(x), rng |-> NextState(x)]

\* np.random.uniform(): the advanced state x stands for x/32 in [0, 1)
UniformDraw(x) == [value |-> NextState(x), rng |-> NextState(x)]

----------------------------------------------------------------------------
(* apply_damage_states *)

\* lines 119-120, 126: lam = repair_rate * link_length in units of ln 2
Lambda(w, pipe_name, PGV) == (PGV * w.pipes[pipe_name].length) \div 2

\* mutant of line 122: round(0.85 * num_damages) in place of int(...)
LeakCountRounded(num_damages) == (85 * num_damages + 50) \div 100

\* line 122: int(0.85 * num_damages), int(0.15 * num_damages)
LeakCount(num_damages) == (85 * num_damages) \div 100

BreakCount(num_damages) == (15 * num_damages) \div 100

\* line 123-124: area = pi * (diameter / 2) ** 2, in units of pi/4
PipeArea(w, pipe_name) == w.pipes[pipe_name].diameter * w.pipes[pipe_name].diameter

\* mutant of line 125: the cap at the full bore area is left out
OrificeAreaUncapped(leaks, breaks, area) == (3 * leaks + 20 * breaks) * area

\* line 125: min((0.03 * leaks + 0.2 * breaks) * area, area), units pi/400
OrificeArea(leaks, breaks, area) ==
    Min((3 * leaks + 20 * breaks) * area, 100 * area)

\* mutant of line 126: pf = exp(-lam), the survival probability
PipeFailsSurvival(lam, u) == u * Pow2(lam) < 32

\* lines 126, 128: np.random.uniform() < 1 - exp(-lam), with u = x/32
PipeFails(lam, u) == u * Pow2(lam) < 32 * (Pow2(lam) - 1)

\* lines 119-128 for one row naming a pipe, given the two draws
DamageSampler(w, pipe_name, PGV, num_damages, u) ==
    LET leaks  == LeakCount(num_damages)
        breaks == BreakCount(num_damages)
        area   == PipeArea(w, pipe_name)
    IN  [ pipe         |-> pipe_name,
          num_damages  |-> num_damages,
          leaks        |-> leaks,
          breaks       |-> breaks,
          area         |-> area,
          orifice_area |-> OrificeArea(leaks, breaks, area),
          failed       |-> PipeFails(Lambda(w, pipe_name, PGV), u) ]

\* line 129: pipelines_orifice_areas[row['site_id']] = orifice_area on an
\* insertion-ordered dict: an existing key keeps its place, value replaced
DictPut(d, key, value) ==
    IF \E k \in 1..Len(d) : d[k].pipe = key
    THEN [k \in 1..Len(d) |->
            IF d[k].pipe = key THEN [pipe |-> key, area |-> value] ELSE d[k]]
    ELSE Append(d, [pipe |-> key, area |-> value])

\* mutant of lines 128-129: a failed pipe without orifice area is left
\* out of the plan
RowPlanSkipsZeroArea(w, row, d, num_damages, u) ==
    IF row.site_id \in pipe_name_list(w)
    THEN LET dmg == DamageSampler(w, row.site_id, row.PGV, num_damages, u)
         IN  IF dmg.failed /\ dmg.orifice_area > 0
             THEN DictPut(d, row.site_id, dmg.orifice_area)
             ELSE d
    ELSE d

\* lines 117-129: the loop body for one row, given the two draws
RowPlan(w, row, d, num_damages, u) ==
    IF row.site_id \in pipe_name_list(w)
    THEN LET dmg == DamageSampler(w, row.site_id, row.PGV, num_damages, u)
         IN  IF dmg.failed
             THEN DictPut(d, row.site_id, dmg.orifice_area)
             ELSE d
    ELSE d

\* mutant of lines 117-128: the failure draw is taken before the test that
\* the row names a pipe, so that every row consumes a draw
DamageRowDrawsFirst(w, row, d, x) ==
    IF row.site_id \in pipe_name_list(w)
    THEN LET lam == Lambda(w, row.site_id, row.PGV)
             p   == PoissonDraw(lam, x)
             f   == UniformDraw(p.rng)
         IN  [ plan   |-> RowPlan(w, row, d, p.value, f.value),
               rng    |-> f.rng,
               failed |-> IF PipeFails(lam, f.value)
                          THEN <<row.site_id>> ELSE <<>> ]
    ELSE [plan |-> d, rng |-> UniformDraw(x).rng, failed |-> <<>>]

\* lines 117-129: the loop body for one row, the draws taken from np.random
DamageRow(w, row, d, x) ==
    IF row.site_id \in pipe_name_list(w)
    THEN LET lam == Lambda(w, row.site_id, row.PGV)
             p   == PoissonDraw(lam, x)
             f   == UniformDraw(p.rng)
         IN  [ plan   |-> RowPlan(w, row, d, p.value, f.value),
               rng    |-> f.rng,
               failed |-> IF PipeFails(lam, f.value)
                          THEN <<row.site_id>> ELSE <<>> ]
    ELSE [plan |-> d, rng |-> x, failed |-> <<>>]

\* lines 114-131: all rows of the group in order; failed lists the pipes
\* whose failure draw succeeded, one entry per row
RECURSIVE DamageRows(_, _, _, _, _, _)
DamageRows(w, rows, i, d, x, failed) ==
    IF i > Len(rows) THEN [plan |-> d, rng |-> x, failed |-> failed]
    ELSE LET r == DamageRow(w, rows[i], d, x)
         IN  DamageRows(w, rows, i + 1, r.plan, r.rng, failed \o r.failed)

apply_damage_states(w, scenario_group, x) ==
    DamageRows(w, scenario_group, 1, <<>>, x, <<>>)

----------------------------------------------------------------------------
(* run_hydraulic_simulation: mutation, solve, reduction, accumulation *)

\* mutant of line 66: the junction added at the cut carries a demand
split_pipeWithDemand(w, pipe, new_pipe, new_junction) ==
    LET half == [w.pipes[pipe] EXCEPT !.length = w.pipes[pipe].length \div 2]
    IN  [w EXCEPT !.pipes     = (pipe :> half) @@ (new_pipe :> half) @@ w.pipes,
                  !.junctions = (new_junction :> 1) @@ w.junctions]

\* line 66: wntr.morph.split_pipe(wn, pipe, pipe_A, Leak_pipe): the pipe is
\* cut at its midpoint, the second half and a junction without demand are
\* added under the new names
split_pipe(w, pipe, new_pipe, new_junction) ==
    LET half == [w.pipes[pipe] EXCEPT !.length = w.pipes[pipe].length \div 2]
    IN  [w EXCEPT !.pipes     = (pipe :> half) @@ (new_pipe :> half) @@ w.pipes,
                  !.junctions = (new_junction :> 0) @@ w.junctions]

\* lines 67-68: leak_node.add_leak(wn, area, start_time, end_time)
add_leak(w, node, area, cfg) ==
    [w EXCEPT !.leaks = (node :> [ area       |-> area,
                                   start_time |-> cfg.leak_start_time,
                                   end_time   |-> cfg.leak_end_time ]) @@ w.leaks]

\* lines 64-68: every entry of the plan in the dict's order
RECURSIVE ApplyOrifices(_, _, _, _)
ApplyOrifices(w, d, i, cfg) ==
    IF i > Len(d) THEN w
    ELSE LET pipe  == d[i].pipe
             split == split_pipe(w, pipe, pipe \o "_A", "Leak_" \o pipe)
         IN  ApplyOrifices(add_leak(split, "Leak_" \o pipe, d[i].area, cfg),
                           d, i + 1, cfg)

\* largest base demand of the network
MaxDemand(w) ==
    CHOOSE d \in {w.junctions[n] : n \in DOMAIN w.junctions} :
        \A n \in DOMAIN w.junctions : w.junctions[n] <= d

\* lines 71-72: what sim.run_sim() can return for a network: the mean
\* delivered demand of every node, under pressure-driven demand between 0
\* and the demand the junction requires, 0 at the other nodes
SolverResults(w) ==
    { r \in [node_name_list(w) -> 0..MaxDemand(w)] :
        \A n \in node_name_list(w) :
            IF n \in junction_name_list(w)
            THEN r[n] <= w.junctions[n]
            ELSE r[n] = 0 }

\* mutant of line 80: the demand drawn by the leaks of the damaged network
\* is counted as required demand
expected_demandWithLeaks(w, node_name) ==
    w.junctions[node_name] + Cardinality(DOMAIN w.leaks)

\* line 80: wntr.metrics.expected_demand(wn)[node_name].mean()
expected_demand(w, node_name) == w.junctions[node_name]

\* mutant of lines 81-83: the test for a zero required demand is left out
ReduceNoSkip(w, res) ==
    [ n \in { m \in node_name_list(w) : m \in junction_name_list(w) }
      |-> <<res[n], w.junctions[n]>> ]

\* lines 75-84: the serviceability of the junctions with required demand
Reduce(w, res) ==
    [ n \in { m \in node_name_list(w) :
                /\ m \in junction_name_list(w)
                /\ expected_demand(w, m) # 0 }
      |-> <<res[n], expected_demand(w, n)>> ]

\* lines 87-90: append this scenario's values to the per-node lists
Accumulate(acc, serv) ==
    [ n \in DOMAIN acc \cup DOMAIN serv |->
        IF n \in DOMAIN serv
        THEN Append(IF n \in DOMAIN acc THEN acc[n] ELSE <<>>, serv[n])
        ELSE acc[n] ]

\* line 92: DataFrame.from_dict needs lists of one length
SameLengths(acc) == \A n, m \in DOMAIN acc : Len(acc[n]) = Len(acc[m])

\* lines 92-93: from_dict, transpose and melt: the column labels, which are
\* the positions 0, 1, ... in the lists, become scenario_index
Melt(acc) ==
    UNION { { [ scenario_index |-> j - 1,
                site_id        |-> n,
                serviceability |-> acc[n][j] ] : j \in 1..Len(acc[n]) } :
            n \in DOMAIN acc }

----------------------------------------------------------------------------
(* Inputs *)

\* the site ids a scenario row can carry: the pipes and a junction
Sites == pipe_name_list(BaseNetwork) \cup {"J1"}

Rows == [site_id : Sites, PGV : 0..MaxPGV]

\* the scenario tables with at most budget rows over the given indices,
\* as groupby('scenario_index') yields them: index -> its rows in order
RECURSIVE GroupTables(_, _)
GroupTables(ids, budget) ==
    IF ids = {} THEN {EmptyDict}
    ELSE LET s == CHOOSE i \in ids : \A j \in ids : i <= j
         IN  UNION { { (s :> g) @@ t :
                         g \in [1..n -> Rows],
                         t \in GroupTables(ids \ {s}, budget - n) } :
                     n \in 1..(budget - (Cardinality(ids) - 1)) }

ScenarioTables ==
    UNION { GroupTables(ids, MaxRows) : ids \in SUBSET (0..MaxIndex) \ {{}} }

\* the hydraulic configurations: a valid one, one with a negative
\* duration, one with required_pressure < minimum_pressure
Configs ==
    { [ duration |-> d, leak_start_time |-> 0, leak_end_time |-> 1,
        minimum_pressure |-> p[1], required_pressure |-> p[2] ] :
        d \in {-1, 1}, p \in {<<0, 1>>, <<1, 0>>} }
    \ { [ duration |-> -1, leak_start_time |-> 0, leak_end_time |-> 1,
          minimum_pressure |-> 1, required_pressure |-> 0 ] }

\* the sampler has not been evaluated
NoDraw == [state |-> "none"]

\* the inputs of one evaluation of the loop body: a row and the outcomes
\* of the two draws; np.random.poisson(0) is 0
DrawInputs ==
    { i \in [ row : Rows, num_damages : 0..MaxDamages, u : 0..31 ] :
        /\ i.row.site_id \in pipe_name_list(BaseNetwork)
        /\ Lambda(BaseNetwork, i.row.site_id, i.row.PGV) = 0
              => i.num_damages = 0 }

----------------------------------------------------------------------------
(* The batch: run_hydraulic_simulation *)

Init ==
    /\ scenarios_df \in ScenarioTables
    /\ config \in Configs
    /\ seed \in 0..NumSeeds - 1
    /\ rng = seed
    /\ pc = "running"
    /\ error = "none"
    /\ stage = [s \in DOMAIN scenarios_df |-> "Pending"]
    /\ wn = NoNetwork
    /\ plans = [s \in DOMAIN scenarios_df |-> <<>>]
    /\ results = EmptyDict
    /\ serviceability = [s \in DOMAIN scenarios_df |-> EmptyDict]
    /\ serviceability_dict = EmptyDict
    /\ serviceability_df = {}
    /\ damage_draws = [s \in DOMAIN scenarios_df |-> <<>>]
    /\ draw = NoDraw

Pending == { s \in DOMAIN scenarios_df : stage[s] = "Pending" }

InProgress ==
    { s \in DOMAIN scenarios_df :
        stage[s] \in {"Planned", "Mutated", "Solved", "Reduced"} }

\* line 53: groupby yields the groups in ascending scenario_index, one
\* iteration at a time
NextScenario(s) ==
    /\ pc = "running"
    /\ InProgress = {}
    /\ s \in Pending
    /\ \A t \in Pending : s <= t

\* lines 55-61: load the network, set the options, draw the damage plan
Plan(s) ==
    /\ NextScenario(s)
    /\ LET w == LoadNetwork(BaseNetwork, config)
           r == apply_damage_states(w, scenarios_df[s], rng)
       IN  /\ wn' = w
           /\ plans' = [plans EXCEPT ![s] = r.plan]
           /\ damage_draws' = [damage_draws EXCEPT ![s] = r.failed]
           /\ rng' = r.rng
    /\ stage' = [stage EXCEPT ![s] = "Planned"]
    /\ UNCHANGED <<scenarios_df, config, seed, pc, error, results,
                   serviceability, serviceability_dict, serviceability_df,
                   draw>>

\* lines 64-68: split every pipe of the plan and attach its leak
Mutate(s) ==
    /\ pc = "running"
    /\ stage[s] = "Planned"
    /\ wn' = ApplyOrifices(wn, plans[s], 1, config)
    /\ stage' = [stage EXCEPT ![s] = "Mutated"]
    /\ UNCHANGED <<scenarios_df, config, seed, rng, pc, error, plans,
                   results, serviceability, serviceability_dict,
                   serviceability_df, damage_draws, draw>>

\* lines 71-72: the solve returns
Solve(s) ==
    /\ pc = "running"
    /\ stage[s] = "Mutated"
    /\ \E r \in SolverResults(wn) : results' = r
    /\ stage' = [stage EXCEPT ![s] = "Solved"]
    /\ UNCHANGED <<scenarios_df, config, seed, rng, pc, error, wn, plans,
                   serviceability, serviceability_dict, serviceability_df,
                   damage_draws, draw>>

\* lines 71-72: the solve does not converge; nothing catches the exception,
\* which leaves run_hydraulic_simulation
SolveDiverges(s) ==
    /\ pc = "running"
    /\ stage[s] = "Mutated"
    /\ stage' = [stage EXCEPT ![s] = "Failed"]
    /\ pc' = "raised"
    /\ error' = "SimulationDivergenceError"
    /\ UNCHANGED <<scenarios_df, config, seed, rng, wn, plans, results,
                   serviceability, serviceability_dict, serviceability_df,
                   damage_draws, draw>>

\* lines 75-84: reduce the results to the scenario's serviceability dict
ReduceScenario(s) ==
    /\ pc = "running"
    /\ stage[s] = "Solved"
    /\ serviceability' = [serviceability EXCEPT ![s] = Reduce(wn, results)]
    /\ stage' = [stage EXCEPT ![s] = "Reduced"]
    /\ UNCHANGED <<scenarios_df, config, seed, rng, pc, error, wn, plans,
                   results, serviceability_dict, serviceability_df,
                   damage_draws, draw>>

\* lines 87-90: accumulate the scenario's values
Merge(s) ==
    /\ pc = "running"
    /\ stage[s] = "Reduced"
    /\ serviceability_dict' = Accumulate(serviceability_dict, serviceability[s])
    /\ stage' = [stage EXCEPT ![s] = "Merged"]
    /\ UNCHANGED <<scenarios_df, config, seed, rng, pc, error, wn, plans,
                   results, serviceability, serviceability_df, damage_draws,
                   draw>>

\* lines 92-95: after the last group, reshape and return the table
Reshape ==
    /\ pc = "running"
    /\ \A s \in DOMAIN scenarios_df : stage[s] = "Merged"
    /\ IF SameLengths(serviceability_dict)
       THEN /\ serviceability_df' = Melt(serviceability_dict)
            /\ pc' = "returned"
            /\ error' = error
       ELSE /\ serviceability_df' = serviceability_df
            /\ pc' = "raised"
            /\ error' = "ValueError"
    /\ UNCHANGED <<scenarios_df, config, seed, rng, stage, wn, plans, results,
                   serviceability, serviceability_dict, damage_draws, draw>>

Next ==
    \/ \E s \in DOMAIN scenarios_df : Plan(s)
    \/ \E s \in DOMAIN scenarios_df : Mutate(s)
    \/ \E s \in DOMAIN scenarios_df : Solve(s)
    \/ \E s \in DOMAIN scenarios_df : SolveDiverges(s)
    \/ \E s \in DOMAIN scenarios_df : ReduceScenario(s)
    \/ \E s \in DOMAIN scenarios_df : Merge(s)
    \/ Reshape

Spec == Init /\ [][Next]_vars

----------------------------------------------------------------------------
(* The sampler alone: one row of apply_damage_states under every outcome   *)
(* of its two draws                                                         *)

InitSampler ==
    /\ scenarios_df = EmptyDict
    /\ config \in Configs
    /\ seed = 0
    /\ rng = 0
    /\ pc = "idle"
    /\ error = "none"
    /\ stage = EmptyDict
    /\ wn = LoadNetwork(BaseNetwork, config)
    /\ plans = EmptyDict
    /\ results = EmptyDict
    /\ serviceability = EmptyDict
    /\ serviceability_dict = EmptyDict
    /\ serviceability_df = {}
    /\ damage_draws = EmptyDict
    /\ \E i \in DrawInputs :
         draw = [ state |-> "input", row |-> i.row,
                  num_damages |-> i.num_damages, u |-> i.u,
                  damage |-> DamageSampler(wn, i.row.site_id, 0, 0, 0),
                  plan |-> <<>> ]

\* lines 117-129 on an empty plan
Sample ==
    /\ draw.state = "input"
    /\ draw' = [ draw EXCEPT
                   !.state  = "sampled",
                   !.damage = DamageSampler(wn, draw.row.site_id, draw.row.PGV,
                                            draw.num_damages, draw.u),
                   !.plan   = RowPlan(wn, draw.row, <<>>, draw.num_damages,
                                      draw.u) ]
    /\ UNCHANGED batchVars

\* lines 64-68 on the plan of the sampled row
MutateSample ==
    /\ draw.state = "sampled"
    /\ draw' = [draw EXCEPT !.state = "mutated"]
    /\ wn' = ApplyOrifices(wn, draw.plan, 1, config)
    /\ UNCHANGED <<scenarios_df, config, seed, rng, pc, error, stage, plans,
                   results, serviceability, serviceability_dict,
                   serviceability_df, damage_draws>>

NextSampler == Sample \/ MutateSample

\* the interpreter runs the loop to its end or to the exception that leaves
\* it: a step that can be taken is taken
SpecFair == Spec /\ WF_vars(Next)

SpecSampler == InitSampler /\ [][NextSampler]_vars

----------------------------------------------------------------------------
(* Claims *)

\* C1: for every pipe, every PGV >= 0 and every sampled num_damages >= 0
\* the orifice area computed for the row lies between 0 and the pipe's
\* full cross-sectional area pi*(diameter/2)^2, and so does every value
\* stored in the damage plan.
C1_OrificeWithinBore ==
    draw.state = "sampled" =>
        LET d    == BaseNetwork.pipes[draw.row.site_id].diameter
            bore == 100 * d * d
        IN  /\ 0 <= draw.damage.orifice_area
            /\ draw.damage.orifice_area <= bore
            /\ \A k \in 1..Len(draw.plan) :
                 0 <= draw.plan[k].area /\ draw.plan[k].area <= bore

\* C1 witness: a failed pipe whose sampled damage exceeds the bore, so that
\* the cap decides the stored value
C1_Witness ==
    /\ draw.state = "sampled"
    /\ draw.damage.failed
    /\ (3 * draw.damage.leaks + 20 * draw.damage.breaks) > 100
    /\ Len(draw.plan) = 1
    /\ draw.plan[1].area = 100 * draw.damage.area

Scenarios == DOMAIN scenarios_df

AllZeroPGV(s) == \A k \in 1..Len(scenarios_df[s]) : scenarios_df[s][k].PGV = 0

\* C2: when every row of a scenario has PGV = 0, its damage plan is empty
\* whatever the draws, and no pipe is split and no leak added: the network
\* handed to the solver is the base network (with the options set).
C2_ZeroPGVNoDamage ==
    \A s \in Scenarios :
        (AllZeroPGV(s) /\ stage[s] # "Pending") =>
            /\ plans[s] = <<>>
            /\ stage[s] \in {"Mutated", "Solved", "Reduced"} =>
                 /\ wn.pipes = BaseNetwork.pipes
                 /\ wn.junctions = BaseNetwork.junctions
                 /\ wn.leaks = EmptyDict

\* C2 witness: a scenario whose rows name a pipe at PGV = 0 has consumed a
\* draw and been solved
C2_Witness ==
    \E s \in Scenarios :
        /\ AllZeroPGV(s)
        /\ \E k \in 1..Len(scenarios_df[s]) :
             scenarios_df[s][k].site_id \in pipe_name_list(BaseNetwork)
        /\ rng # seed
        /\ stage[s] = "Solved"

\* C3: the reduction never emits a record for a node whose required demand
\* is 0, nor for a node that is not a junction, and skipping raises nothing.
C3_NoRecordWithoutDemand ==
    /\ \A s \in Scenarios : \A n \in DOMAIN serviceability[s] :
         /\ serviceability[s][n][2] # 0
         /\ stage[s] = "Reduced" =>
              /\ n \in junction_name_list(wn)
              /\ wn.junctions[n] # 0
    /\ \A n \in DOMAIN serviceability_dict :
         \A j \in 1..Len(serviceability_dict[n]) :
             serviceability_dict[n][j][2] # 0
    /\ pc = "raised" => error = "SimulationDivergenceError"

\* C3 witness: a reduced scenario whose network holds a leak node and a
\* junction without demand, both skipped, and a record for the junction
\* with demand
C3_Witness ==
    \E s \in Scenarios :
        /\ stage[s] = "Reduced"
        /\ DOMAIN wn.leaks # {}
        /\ \E n \in junction_name_list(wn) : n \in DOMAIN wn.leaks
        /\ DOMAIN serviceability[s] = {"J1"}

\* C4: the returned table holds exactly one row (s, n, v) for every input
\* scenario s and every eligible node n, v being the value scenario s
\* computed for n, whatever the integer scenario_index values are.
C4_RowsCarryTheirScenarioIndex ==
    pc = "returned" =>
        /\ \A s \in Scenarios : \A n \in DOMAIN serviceability[s] :
             [ scenario_index |-> s, site_id |-> n,
               serviceability |-> serviceability[s][n] ] \in serviceability_df
        /\ \A r \in serviceability_df :
             /\ r.scenario_index \in Scenarios
             /\ r.site_id \in DOMAIN serviceability[r.scenario_index]
             /\ r.serviceability = serviceability[r.scenario_index][r.site_id]

\* C5: a scenario whose solve diverges is marked Failed without aborting
\* the batch: the call does not end with the solver's exception, and it
\* returns only once every other scenario has been merged.
C5_DivergenceDoesNotAbort ==
    \A s \in Scenarios :
        stage[s] = "Failed" =>
            /\ pc # "raised"
            /\ pc = "returned" =>
                 \A t \in Scenarios : stage[t] \in {"Merged", "Failed"}

\* C6: after the call returns every input scenario_index has rows in the
\* table or an entry in a manifest of excluded scenarios; the call returns
\* the table alone, so every index must have rows.
C6_EveryScenarioAccounted ==
    pc = "returned" =>
        \A s \in Scenarios :
            \E r \in serviceability_df : r.scenario_index = s

\* C7: the damage plan of a scenario is the plan it gets when it is the
\* first to run from the same initial random state: it does not depend on
\* the scenarios that ran before it.
C7_PlanIndependentOfOrder ==
    \A s \in Scenarios :
        stage[s] # "Pending" =>
            plans[s] = apply_damage_states(LoadNetwork(BaseNetwork, config),
                                           scenarios_df[s], seed).plan

\* C8: every scenario starts from the base topology: the network it is
\* planned on holds no split pipe and no leak node of an earlier scenario,
\* and the splits and leaks it holds later are those of its own plan.
C8_ScenarioStartsFromBase ==
    \A s \in Scenarios :
        /\ stage[s] = "Planned" =>
             /\ wn.pipes = BaseNetwork.pipes
             /\ wn.junctions = BaseNetwork.junctions
             /\ wn.leaks = EmptyDict
        /\ stage[s] \in {"Mutated", "Solved", "Reduced"} =>
             /\ DOMAIN wn.leaks =
                  { "Leak_" \o plans[s][k].pipe : k \in 1..Len(plans[s]) }
             /\ DOMAIN wn.pipes = DOMAIN BaseNetwork.pipes \cup
                  { plans[s][k].pipe \o "_A" : k \in 1..Len(plans[s]) }

\* C8 witness: a scenario is planned after an earlier scenario split a pipe
C8_Witness ==
    \E s, t \in Scenarios :
        /\ s < t
        /\ stage[s] = "Merged"
        /\ plans[s] # <<>>
        /\ stage[t] = "Planned"

\* a configuration is physically valid
ValidConfig(cfg) ==
    cfg.duration >= 0 /\ cfg.required_pressure >= cfg.minimum_pressure

\* C9: with a physically invalid configuration (negative duration, or
\* required_pressure < minimum_pressure) the batch is rejected before any
\* scenario is planned, mutated or solved, and no row is returned.
C9_InvalidConfigRejected ==
    ~ValidConfig(config) =>
        /\ \A s \in Scenarios : stage[s] = "Pending"
        /\ serviceability_df = {}

HasDuplicate(q) == \E i, j \in 1..Len(q) : i # j /\ q[i] = q[j]

\* C10: a scenario whose rows make its damage plan name a pipe twice ends
\* in a DuplicateDamageError: it is not mutated, solved or merged.
C10_DuplicatePipeFailsScenario ==
    \A s \in Scenarios :
        HasDuplicate(damage_draws[s]) =>
            stage[s] \notin {"Mutated", "Solved", "Reduced", "Merged"}

\* the draws the rows of a group take when only the rows naming a pipe
\* draw: one uniform draw each, and one Poisson draw where lam > 0
RECURSIVE PipeRowDraws(_, _)
PipeRowDraws(rows, i) ==
    IF i > Len(rows) THEN 0
    ELSE PipeRowDraws(rows, i + 1) +
         ( IF rows[i].site_id \notin DOMAIN BaseNetwork.pipes THEN 0
           ELSE IF rows[i].PGV * BaseNetwork.pipes[rows[i].site_id].length = 0
                THEN 1 ELSE 2 )

RECURSIVE PlannedDraws(_)
PlannedDraws(S) ==
    IF S = {} THEN 0
    ELSE LET s == CHOOSE x \in S : TRUE
         IN  PipeRowDraws(scenarios_df[s], 1) + PlannedDraws(S \ {s})

RECURSIVE Advance(_, _)
Advance(x, k) == IF k = 0 THEN x ELSE Advance((5 * x + 3) % 32, k - 1)

NamesNoPipe(s) ==
    \A k \in 1..Len(scenarios_df[s]) :
        scenarios_df[s][k].site_id \notin DOMAIN BaseNetwork.pipes

\* C11: a row whose site_id is not the name of a pipe is skipped by the
\* planner: it raises nothing, takes no random draw (the generator has
\* advanced by the draws of the pipe rows only) and adds nothing to the
\* plan, so that every key of a damage plan is a pipe of the base network.
C11_NonPipeRowsSkipped ==
    /\ \A s \in Scenarios : \A k \in 1..Len(plans[s]) :
         plans[s][k].pipe \in DOMAIN BaseNetwork.pipes
    /\ \A s \in Scenarios :
         (NamesNoPipe(s) /\ stage[s] # "Pending") => plans[s] = <<>>
    /\ rng = Advance(seed, PlannedDraws(Scenarios \ Pending))
    /\ error \in {"none", "SimulationDivergenceError"}

\* C11 witness: a scenario whose only rows name a junction at PGV > 0 has
\* been planned after a scenario that took draws for a pipe
C11_Witness ==
    \E s, t \in Scenarios :
        /\ t < s
        /\ stage[s] = "Planned"
        /\ NamesNoPipe(s)
        /\ \E k \in 1..Len(scenarios_df[s]) : scenarios_df[s][k].PGV > 0
        /\ ~NamesNoPipe(t)
        /\ rng # seed

\* C12: a pipe is in the damage plan if and only if its failure draw
\* succeeded (uniform draw < pf), whatever the sampled damage count: a
\* failed pipe is put in the plan with its orifice area even when that is
\* 0, and is then split and given a leak of that area; a pipe whose draw
\* did not succeed is not in the plan even when its orifice area is > 0,
\* and is neither split nor given a leak.
C12_PlanIffFailureDraw ==
    draw.state \in {"sampled", "mutated"} =>
        LET pipe == draw.row.site_id
            lam  == (draw.row.PGV * BaseNetwork.pipes[pipe].length) \div 2
            hit  == draw.u * Pow2(lam) < 32 * (Pow2(lam) - 1)
        IN  /\ draw.damage.failed <=> hit
            /\ hit => draw.plan = << [ pipe |-> pipe,
                                       area |-> draw.damage.orifice_area ] >>
            /\ ~hit => draw.plan = <<>>
            /\ (draw.state = "mutated" /\ hit) =>
                 /\ DOMAIN wn.leaks = {"Leak_" \o pipe}
                 /\ wn.leaks["Leak_" \o pipe].area = draw.damage.orifice_area
                 /\ DOMAIN wn.pipes = DOMAIN BaseNetwork.pipes \cup {pipe \o "_A"}
            /\ (draw.state = "mutated" /\ ~hit) =>
                 /\ wn.leaks = EmptyDict
                 /\ wn.pipes = BaseNetwork.pipes

\* C12 witness: a failed pipe whose damage count floors to no leak and no
\* break has been split and given a leak of area 0
C12_Witness ==
    /\ draw.state = "mutated"
    /\ draw.damage.failed
    /\ draw.num_damages = 1
    /\ draw.damage.orifice_area = 0
    /\ "Leak_" \o draw.row.site_id \in DOMAIN wn.leaks
    /\ wn.leaks["Leak_" \o draw.row.site_id].area = 0

StageSteps ==
    { <<"Pending", "Planned">>, <<"Planned", "Mutated">>,
      <<"Mutated", "Solved">>, <<"Mutated", "Failed">>,
      <<"Solved", "Reduced">>, <<"Reduced", "Merged">> }

StagesInOrder ==
    \A s \in Scenarios :
        stage'[s] # stage[s] => <<stage[s], stage'[s]>> \in StageSteps

\* C14: every scenario passes through Pending, Planned, Mutated, Solved,
\* Reduced, Merged in this order, no stage skipped or repeated, and every
\* scenario eventually ends in a terminal state, Merged or Failed.
C14_StagesInOrderToTerminal ==
    /\ [][StagesInOrder]_vars
    /\ \A s \in 0..MaxIndex :
         <>(s \in Scenarios => stage[s] \in {"Merged", "Failed"})

\* C15: for every num_damages >= 0, leak_count = floor(0.85 * num_damages)
\* and break_count = floor(0.15 * num_damages), so that their sum is at
\* most num_damages; num_damages = 3 gives 2 leaks and no break, and
\* num_damages = 1 gives neither and an orifice area of 0.
C15_CountsAreFloors ==
    draw.state \in {"sampled", "mutated"} =>
        LET n == draw.num_damages
            l == draw.damage.leaks
            b == draw.damage.breaks
        IN  /\ 100 * l <= 85 * n /\ 85 * n < 100 * (l + 1)
            /\ 100 * b <= 15 * n /\ 15 * n < 100 * (b + 1)
            /\ l + b <= n
            /\ n = 3 => (l = 2 /\ b = 0)
            /\ n = 1 => (l = 0 /\ b = 0 /\ draw.damage.orifice_area = 0)

\* C15 witness: a row sampled with three damages has two leaks, no break
\* and an orifice area of 0.06 of the bore
C15_Witness ==
    /\ draw.state = "sampled"
    /\ draw.num_damages = 3
    /\ draw.damage.leaks = 2
    /\ draw.damage.breaks = 0
    /\ draw.damage.orifice_area = 6 * draw.damage.area

\* the junctions of the base network with nonzero required demand
BaseDemandNodes ==
    { n \in junction_name_list(BaseNetwork) : BaseNetwork.junctions[n] # 0 }

\* the leak nodes the plan of scenario s inserts
LeakNodes(s) == { "Leak_" \o plans[s][k].pipe : k \in 1..Len(plans[s]) }

\* C16: every scenario emits records for the same sites whatever its damage
\* plan, namely the junctions of the base network with nonzero required
\* demand; the leak nodes inserted by the splits are junctions with zero
\* required demand and never appear in the output; hence every per-node list
\* of the accumulator is as long as the number of scenarios processed so far.
C16_SameSitesEveryScenario ==
    /\ \A s \in Scenarios :
          stage[s] \in {"Reduced", "Merged"} =>
              DOMAIN serviceability[s] = BaseDemandNodes
    /\ \A s \in Scenarios :
          stage[s] \in {"Mutated", "Solved", "Reduced"} =>
              \A n \in LeakNodes(s) :
                  /\ n \in junction_name_list(wn)
                  /\ wn.junctions[n] = 0
                  /\ n \in DOMAIN wn.leaks
    /\ \A s \in Scenarios : \A n \in LeakNodes(s) :
          /\ n \notin DOMAIN serviceability[s]
          /\ n \notin DOMAIN serviceability_dict
          /\ \A r \in serviceability_df : r.site_id # n
    /\ \A n \in DOMAIN serviceability_dict :
          Len(serviceability_dict[n]) =
              Cardinality({ s \in Scenarios : stage[s] = "Merged" })
    /\ (\E s \in Scenarios : stage[s] = "Merged") =>
          DOMAIN serviceability_dict = BaseDemandNodes

\* C16 witness: two scenarios are merged, one with a leak and one without,
\* and the list of the junction with demand holds two values
C16_Witness ==
    \E s, t \in Scenarios :
        /\ stage[s] = "Merged" /\ stage[t] = "Merged"
        /\ plans[s] # <<>> /\ plans[t] = <<>>
        /\ DOMAIN serviceability[s] = {"J1"}
        /\ DOMAIN serviceability[t] = {"J1"}
        /\ Len(serviceability_dict["J1"]) = 2

====
